---- MODULE Spec2Model ----
(***************************************************************************)
(* Model of notebooks/ml/ma/ma.py: compute_ma, merge_ma,                   *)
(* add_tournament_flag and their wrapper get_training_data.                *)
(*                                                                         *)
(* A cell of a table is a tuple: a number is the exact fraction <<n, d>>,  *)
(* a date string "YYYY-MM-DD" is <<y, m, d>> (fixed-width fields, so the   *)
(* string order is the field-wise order), a team name is <<name>>, and the *)
(* empty tuple is NaN.  A DataFrame is a record of its column names, its   *)
(* index labels and its rows; DataFrames live in a heap and are named by   *)
(* reference, so that copying and in-place modification are distinct.      *)
(***************************************************************************)
EXTENDS Integers, Sequences, FiniteSets, TLC

VARIABLES span, identifiers, files, heap, dfs, away_games, home_games,
          merged, result, pc, entry_mas, entry_df

vars == <<span, identifiers, files, heap, dfs, away_games, home_games,
          merged, result, pc, entry_mas, entry_df>>

\* ------------------------------------------------------------------ bounds
MaxSpan == 2
MaxLen == 4
MaxFile == 3
MaxRecs == 2
MaxTagRows == 2

\* ------------------------------------------------------------------ cells
NaN == <<>>

IsNull(v) == v = NaN

RECURSIVE GCD(_, _)
GCD(a, b) == IF b = 0 THEN a ELSE GCD(b, a % b)

Abs(n) == IF n < 0 THEN -n ELSE n

RatNorm(n, d) == LET g == GCD(Abs(n), d) IN <<n \div g, d \div g>>

RatAdd(p, q) == RatNorm(p[1] * q[2] + q[1] * p[2], p[2] * q[2])

RatMul(p, q) == RatNorm(p[1] * q[1], p[2] * q[2])

RatDiv(p, q) == RatNorm(p[1] * q[2], p[2] * q[1])

Rat(n) == <<n, 1>>

RECURSIVE SeqSum(_)
SeqSum(s) == IF s = <<>> THEN Rat(0) ELSE RatAdd(s[1], SeqSum(Tail(s)))

HasNull(s) == \E k \in 1..Len(s) : IsNull(s[k])

\* mean of a window; NaN when the window holds a NaN
Mean(s) == IF HasNull(s) THEN NaN ELSE RatDiv(SeqSum(s), Rat(Len(s)))

\* ------------------------------------------------------------- DataFrames
Column(df, col) == [k \in 1..Len(df.rows) |-> df.rows[k][col]]

SeqToSet(s) == {s[k] : k \in 1..Len(s)}

\* df[name] = values : replaces the column, or appends it as the last column
SetColumn(df, name, values) ==
    [columns |-> IF name \in SeqToSet(df.columns) THEN df.columns
                 ELSE Append(df.columns, name),
     index   |-> df.index,
     rows    |-> [k \in 1..Len(df.rows) |-> (name :> values[k]) @@ df.rows[k]]]

\* the rows at the positions listed in perm, in that order
Take(df, perm) ==
    [columns |-> df.columns,
     index   |-> [k \in 1..Len(perm) |-> df.index[perm[k]]],
     rows    |-> [k \in 1..Len(perm) |-> df.rows[perm[k]]]]

\* the positions of 1..n that lie in keep, ascending
Positions(n, keep) == SelectSeq([k \in 1..n |-> k], LAMBDA k : k \in keep)

\* pd.read_csv: the file's rows under a fresh 0-based index
ReadCsv(file) ==
    [columns |-> file.header,
     index   |-> [k \in 1..Len(file.rows) |-> k - 1],
     rows    |-> file.rows]

\* string order on the fixed-width fields
RECURSIVE LexLess(_, _)
LexLess(a, b) ==
    IF a = <<>> THEN b # <<>>
    ELSE IF b = <<>> THEN FALSE
    ELSE IF a[1] # b[1] THEN a[1] < b[1]
    ELSE LexLess(Tail(a), Tail(b))

\* a may stay before b in ascending order, NaN last
KeyLE(a, b) ==
    IF IsNull(b) THEN TRUE
    ELSE IF IsNull(a) THEN FALSE
    ELSE ~LexLess(b, a)

RECURSIVE InsertPos(_, _, _)
InsertPos(perm, p, keys) ==
    IF perm = <<>> THEN <<p>>
    ELSE IF KeyLE(keys[perm[1]], keys[p])
         THEN <<perm[1]>> \o InsertPos(Tail(perm), p, keys)
         ELSE <<p>> \o perm

RECURSIVE SortedPerm(_, _)
SortedPerm(keys, n) ==
    IF n = 0 THEN <<>> ELSE InsertPos(SortedPerm(keys, n - 1), n, keys)

\* variant: the table is left in file order
SortValuesNone(df, by) == df

\* df.sort_values(by=col): ascending, NaN last; tables this small are sorted
\* by insertion, which leaves ties in their original order
SortValues(df, by) == Take(df, SortedPerm(Column(df, by), Len(df.rows)))

\* variant: the column is not lagged
ShiftNone(s) == s

\* Series.shift(1)
Shift(s) == [k \in 1..Len(s) |-> IF k = 1 THEN NaN ELSE s[k - 1]]

\* variant: the window needs one value more before it is defined
RollingMeanLate(s, window) ==
    [k \in 1..Len(s) |->
        IF k <= window THEN NaN ELSE Mean(SubSeq(s, k - window + 1, k))]

\* Series.rolling(window).mean()
RollingMean(s, window) ==
    [k \in 1..Len(s) |->
        IF k < window THEN NaN ELSE Mean(SubSeq(s, k - window + 1, k))]

\* Series.expanding(min_periods).mean()
ExpandingMean(s, min_periods) ==
    [k \in 1..Len(s) |->
        IF k < min_periods THEN NaN ELSE Mean(SubSeq(s, 1, k))]

\* Series.ewm(span, adjust=False).mean(): weighted average carried forward,
\* alpha = 1 / (1 + com), com = (span - 1) / 2
RECURSIVE EwmAt(_, _, _)
EwmAt(s, k, sp) ==
    LET com     == RatDiv(Rat(sp - 1), Rat(2))
        alpha   == RatDiv(Rat(1), RatAdd(Rat(1), com))
        old_wt  == RatAdd(Rat(1), RatMul(Rat(-1), alpha))
        new_wt  == alpha
    IN  IF k = 1 THEN s[1]
        ELSE RatDiv(RatAdd(RatMul(old_wt, EwmAt(s, k - 1, sp)),
                           RatMul(new_wt, s[k])),
                    RatAdd(old_wt, new_wt))

EwmMean(s, sp) == [k \in 1..Len(s) |-> EwmAt(s, k, sp)]

\* DataFrame.dropna(): keeps the rows without a NaN cell
DropNa(df) ==
    Take(df, Positions(Len(df.rows),
         {k \in 1..Len(df.rows) :
             \A c \in SeqToSet(df.columns) : ~IsNull(df.rows[k][c])}))

\* DataFrame.drop_duplicates(): keeps the first of equal rows
DropDuplicates(df) ==
    Take(df, Positions(Len(df.rows),
         {k \in 1..Len(df.rows) :
             \A j \in 1..(k - 1) : df.rows[j] # df.rows[k]}))

\* ------------------------------------------------------------- compute_ma
\* the three lagged averages of one metric column
AddAverages(df, col, sp) ==
    LET s  == Column(df, col)
        d1 == SetColumn(df, col \o "_sma", Shift(RollingMean(s, sp)))
        d2 == SetColumn(d1, col \o "_cma", Shift(ExpandingMean(s, sp)))
    IN  SetColumn(d2, col \o "_ema", Shift(EwmMean(s, sp)))

\* the loop over the columns the table had when the loop started
RECURSIVE AverageColumns(_, _, _, _)
AverageColumns(df, cols, ids, sp) ==
    IF cols = <<>> THEN df
    ELSE AverageColumns(IF cols[1] \in ids THEN df
                        ELSE AddAverages(df, cols[1], sp),
                        Tail(cols), ids, sp)

\* the table stored for one team
TeamAverages(file, ids, sp) ==
    LET team_stats == SortValues(ReadCsv(file), "date")
    IN  DropDuplicates(DropNa(
            AverageColumns(team_stats, team_stats.columns, ids, sp)))

\* --------------------------------------------------------------- the heap
\* variant: the same object under a second name
DfCopyAlias(h, ref) == [heap |-> h, ref |-> ref]

\* DataFrame.copy(): a new object with the same contents
DfCopy(h, ref) == [heap |-> Append(h, h[ref]), ref |-> Len(h) + 1]

\* a new object holding df
Alloc(h, df) == [heap |-> Append(h, df), ref |-> Len(h) + 1]

\* an in-place operation: the object behind ref now holds df
Store(h, ref, df) == [h EXCEPT ![ref] = df]

\* --------------------------------------------------------------- merge_ma
\* variant: no selection by side
LocAll(df, col, team) == df

\* team_stats.loc[team_stats[col] == team]
Loc(df, col, team) ==
    Take(df, Positions(Len(df.rows),
         {k \in 1..Len(df.rows) : df.rows[k][col] = <<team>>}))

Prefixed(col, prefix, ids) == IF col \in ids THEN col ELSE prefix \o col

\* df.columns = [col if col in identifiers else prefix + col ...]
RenameColumns(df, prefix, ids) ==
    LET new == [k \in 1..Len(df.columns) |-> Prefixed(df.columns[k], prefix, ids)]
    IN  [columns |-> new,
         index   |-> df.index,
         rows    |-> [r \in 1..Len(df.rows) |->
                        [c \in SeqToSet(new) |->
                            df.rows[r][df.columns[
                                CHOOSE k \in 1..Len(new) : new[k] = c]]]]]

\* one perspective of one team: select, copy, clean and rename in place
PerspectiveGames(h, team_stats, col, team, prefix, ids) ==
    LET sel == Alloc(h, Loc(h[team_stats], col, team))
        cp  == DfCopy(sel.heap, sel.ref)
        h1  == Store(cp.heap, cp.ref, DropNa(cp.heap[cp.ref]))
        h2  == Store(h1, cp.ref, DropDuplicates(h1[cp.ref]))
        h3  == Store(h2, cp.ref, RenameColumns(h2[cp.ref], prefix, ids))
    IN  [heap |-> h3, ref |-> cp.ref]

\* pd.concat of two tables (missing cells become NaN)
Concat2(a, b) ==
    LET cols == a.columns \o SelectSeq(b.columns,
                                LAMBDA c : c \notin SeqToSet(a.columns))
        Fill(row) == [c \in SeqToSet(cols) |->
                        IF c \in DOMAIN row THEN row[c] ELSE NaN]
    IN  [columns |-> cols,
         index   |-> a.index \o b.index,
         rows    |-> [k \in 1..Len(a.rows) |-> Fill(a.rows[k])] \o
                     [k \in 1..Len(b.rows) |-> Fill(b.rows[k])]]

RECURSIVE Concat(_, _)
Concat(h, refs) ==
    IF Len(refs) = 1 THEN h[refs[1]]
    ELSE Concat2(Concat(h, SubSeq(refs, 1, Len(refs) - 1)), h[refs[Len(refs)]])

SameKey(l, r, on) == \A c \in on : l[c] = r[c]

RECURSIVE MatchRows(_, _, _, _)
MatchRows(lrow, rrows, k, on) ==
    IF k > Len(rrows) THEN <<>>
    ELSE (IF SameKey(lrow, rrows[k], on) THEN <<rrows[k] @@ lrow>> ELSE <<>>)
         \o MatchRows(lrow, rrows, k + 1, on)

RECURSIVE JoinRows(_, _, _, _)
JoinRows(lrows, rrows, k, on) ==
    IF k > Len(lrows) THEN <<>>
    ELSE MatchRows(lrows[k], rrows, 1, on) \o JoinRows(lrows, rrows, k + 1, on)

\* pd.merge(left, right, on=on): inner join in the order of the left rows,
\* one output row per matching pair, under a fresh 0-based index
Merge(left, right, on) ==
    LET rows == JoinRows(left.rows, right.rows, 1, on)
    IN  [columns |-> left.columns \o SelectSeq(right.columns,
                                        LAMBDA c : c \notin on),
         index   |-> [k \in 1..Len(rows) |-> k - 1],
         rows    |-> rows]

\* variant: the index labels of the join are kept
ResetIndexNone(df) == df

\* DataFrame.reset_index(drop=True)
ResetIndex(df) ==
    [columns |-> df.columns,
     index   |-> [k \in 1..Len(df.rows) |-> k - 1],
     rows    |-> df.rows]

\* the table merge_ma returns
Matchups(h, aways, homes, ids) ==
    ResetIndex(SortValues(Merge(Concat(h, aways), Concat(h, homes), ids), "date"))

\* ---------------------------------------------------- add_tournament_flag
IsLeap(y) == (y % 4 = 0 /\ y % 100 # 0) \/ y % 400 = 0

DaysInMonth(y, m) ==
    IF m = 2 THEN (IF IsLeap(y) THEN 29 ELSE 28)
    ELSE IF m \in {4, 6, 9, 11} THEN 30 ELSE 31

\* the day count behind a datetime (days since 1970-01-01)
Datetime(y, m, d) ==
    LET yy  == IF m <= 2 THEN y - 1 ELSE y
        era == yy \div 400
        yoe == yy - era * 400
        mp  == IF m > 2 THEN m - 3 ELSE m + 9
        doy == (153 * mp + 2) \div 5 + d - 1
        doe == yoe * 365 + yoe \div 4 - yoe \div 100 + doy
    IN  era * 146097 + doe - 719468

\* whether pd.to_datetime accepts the string
Parseable(s) ==
    IsNull(s) \/ (Len(s) = 3 /\ s[2] \in 1..12 /\ s[3] \in 1..DaysInMonth(s[1], s[2]))

\* pd.to_datetime of one cell: NaN becomes NaT, a date its timestamp
ToDatetime(s) == IF IsNull(s) THEN NaN ELSE <<Datetime(s[1], s[2], s[3])>>

\* the hardcoded NCAA tournament windows
dates ==
    << <<Datetime(2010, 3, 16), Datetime(2010, 4, 5)>>,
       <<Datetime(2011, 3, 15), Datetime(2011, 4, 4)>>,
       <<Datetime(2012, 3, 13), Datetime(2012, 4, 2)>>,
       <<Datetime(2013, 3, 19), Datetime(2013, 4, 8)>>,
       <<Datetime(2014, 3, 18), Datetime(2014, 4, 7)>>,
       <<Datetime(2015, 3, 17), Datetime(2015, 4, 6)>>,
       <<Datetime(2016, 3, 15), Datetime(2016, 4, 4)>>,
       <<Datetime(2017, 3, 14), Datetime(2017, 4, 3)>>,
       <<Datetime(2018, 3, 13), Datetime(2018, 4, 2)>>,
       <<Datetime(2019, 3, 19), Datetime(2019, 4, 8)>> >>

\* variant: the end day is excluded
InWindowOpenEnd(start, end, d) == start <= d /\ d < end

\* start <= row["date"] <= end
InWindow(start, end, d) == start <= d /\ d <= end

\* the loop over the windows, returning at the first that holds the date
RECURSIVE is_tournament_game(_, _)
is_tournament_game(row, k) ==
    IF k > Len(dates) \/ IsNull(row["date"]) THEN FALSE
    ELSE IF InWindow(dates[k][1], dates[k][2], row["date"][1]) THEN TRUE
    ELSE is_tournament_game(row, k + 1)

\* the date and flag columns written into the copy
Flagged(df) ==
    LET d1 == SetColumn(df, "date",
                  [k \in 1..Len(df.rows) |-> ToDatetime(df.rows[k]["date"])])
    IN  SetColumn(d1, "is_tournament_game",
                  [k \in 1..Len(d1.rows) |-> <<is_tournament_game(d1.rows[k], 1)>>])

\* ------------------------------------------------------------------ inputs
Teams == {"A", "B"}

Other(t) == IF t = "A" THEN "B" ELSE "A"

Header == <<"date", "home", "away", "val">>

GameRow(d, h, a, v) == [date |-> d, home |-> <<h>>, away |-> <<a>>, val |-> Rat(v)]

SeqsUpTo(S, n) == UNION {[1..k -> S] : k \in 0..n}

Reverse(s) == [k \in 1..Len(s) |-> s[Len(s) + 1 - k]]

File(rows) == [header |-> Header, rows |-> rows]

\* one team's series: game k is played on day k
Day(k) == <<2010, 1, k>>

Vals == {10, 20, 40}

\* the values of the series (date=1,val=10), ..., (date=4,val=40)
ExampleVals == <<10, 20, 30, 40>>

\* the value a second series takes after the point up to which it agrees
OtherVals == {50}

SeriesRows(vals, cut, w) ==
    [k \in 1..Len(vals) |->
        GameRow(Day(k), "B", "A", IF k <= cut THEN vals[k] ELSE w)]

\* the dates of the pipeline's files: a tournament day, a later day, a string
\* that is no date (30 February) and a missing date
GoodDates == {<<2010, 3, 16>>, <<2010, 4, 6>>}

FileDates == GoodDates \cup {<<2010, 2, 30>>, NaN}

FileRowsOf(ds) == [k \in 1..Len(ds) |-> GameRow(ds[k], "B", "A", 10 * k)]

\* ------------------------------------------------------------------ states
NoRef == 0

Common ==
    /\ identifiers = {"date", "home", "away"}
    /\ away_games = <<>>
    /\ home_games = <<>>
    /\ result = NoRef

\* get_training_data on a directory of two small files
Init ==
    /\ Common
    /\ span \in 1..MaxSpan
    /\ \E da \in SeqsUpTo(FileDates, MaxFile), db \in SeqsUpTo(GoodDates, MaxFile) :
          files = [t \in Teams |-> File(FileRowsOf(IF t = "A" THEN da ELSE db))]
    /\ heap = <<>>
    /\ dfs = <<>>
    /\ merged = NoRef
    /\ pc = "compute"
    /\ entry_mas = <<>>
    /\ entry_df = <<>>

\* compute_ma on two series that agree up to a cut, listed in file order or
\* in reverse
InitMA ==
    /\ Common
    /\ span \in 1..MaxSpan
    /\ \E vals \in SeqsUpTo(Vals, MaxLen) \cup {ExampleVals}, rev \in BOOLEAN :
       \E cut \in 0..Len(vals), w \in OtherVals :
          LET a == SeriesRows(vals, Len(vals), w)
              b == SeriesRows(vals, cut, w)
          IN  files = [t \in Teams |->
                        File(IF rev THEN Reverse(IF t = "A" THEN a ELSE b)
                             ELSE IF t = "A" THEN a ELSE b)]
    /\ heap = <<>>
    /\ dfs = <<>>
    /\ merged = NoRef
    /\ pc = "compute"
    /\ entry_mas = <<>>
    /\ entry_df = <<>>

\* merge_ma called on a mapping of two tables of averages, in either order
MaHeader == Header \o <<"val_sma", "val_cma", "val_ema">>

MaRow(kind, v) ==
    [date |-> kind[1], home |-> <<kind[2]>>, away |-> <<kind[3]>>, val |-> Rat(v),
     val_sma |-> kind[4], val_cma |-> kind[4], val_ema |-> kind[4]]

MaKinds ==
    {<<d, ha[1], ha[2], Rat(15)>> :
        d \in {<<2010, 3, 16>>, <<2010, 1, 5>>}, ha \in {<<"A", "B">>, <<"B", "A">>}}
    \cup {<<<<2010, 3, 16>>, "B", "A", NaN>>}

MaTable(kinds) ==
    [columns |-> MaHeader,
     index   |-> [k \in 1..Len(kinds) |-> k - 1],
     rows    |-> [k \in 1..Len(kinds) |-> MaRow(kinds[k], 10 * k)]]

InitMerge ==
    /\ Common
    /\ span = 1
    /\ files = [t \in Teams |-> File(<<>>)]
    /\ \E ka \in SeqsUpTo(MaKinds, MaxRecs), kb \in SeqsUpTo(MaKinds, MaxRecs) :
          heap = <<MaTable(ka), MaTable(kb)>>
    /\ dfs \in {<<[team |-> "A", ref |-> 1], [team |-> "B", ref |-> 2]>>,
                <<[team |-> "B", ref |-> 2], [team |-> "A", ref |-> 1]>>}
    /\ merged = NoRef
    /\ pc = "merge"
    /\ entry_mas = [k \in 1..2 |-> heap[dfs[k].ref]]
    /\ entry_df = <<>>

\* add_tournament_flag called on a table of games
TagDates ==
    {<<2010, 3, 15>>, <<2010, 3, 16>>, <<2010, 4, 5>>, <<2010, 4, 6>>,
     <<2011, 3, 15>>, <<2012, 2, 29>>, <<2019, 4, 8>>, <<2019, 4, 9>>,
     <<2010, 2, 30>>}

TagTable(ds) ==
    [columns |-> <<"date", "home", "away">>,
     index   |-> [k \in 1..Len(ds) |-> k - 1],
     rows    |-> [k \in 1..Len(ds) |->
                    [date |-> ds[k], home |-> <<"B">>, away |-> <<"A">>]]]

InitTag ==
    /\ Common
    /\ span = 1
    /\ files = [t \in Teams |-> File(<<>>)]
    /\ \E ds \in SeqsUpTo(TagDates, MaxTagRows) : heap = <<TagTable(ds)>>
    /\ dfs = <<>>
    /\ merged = 1
    /\ pc = "tag"
    /\ entry_mas = <<>>
    /\ entry_df = heap[1]

\* ----------------------------------------------------------------- actions
Done(t) == \E k \in 1..Len(dfs) : dfs[k].team = t

\* compute_ma, one pass of the loop over the files
ComputeMaTeam(t) ==
    /\ pc = "compute"
    /\ ~Done(t)
    /\ \E team_stats \in {TeamAverages(files[t], identifiers, span)} :
       LET new == Alloc(heap, team_stats)
           d   == Append(dfs, [team |-> t, ref |-> new.ref])
           last == \A u \in Teams : u = t \/ Done(u)
       IN  /\ heap' = new.heap
           /\ dfs' = d
           /\ pc' = IF last THEN "merge" ELSE "compute"
           /\ entry_mas' = IF last THEN [k \in 1..Len(d) |-> new.heap[d[k].ref]]
                           ELSE entry_mas
    /\ UNCHANGED <<span, identifiers, files, away_games, home_games, merged,
                   result, entry_df>>

\* merge_ma, one pass of the loop over the teams
MergeTeam ==
    /\ pc = "merge"
    /\ Len(away_games) < Len(dfs)
    /\ LET item == dfs[Len(away_games) + 1]
       IN  \E away \in {PerspectiveGames(heap, item.ref, "away", item.team,
                                          "away_", identifiers)} :
           \E home \in {PerspectiveGames(away.heap, item.ref, "home", item.team,
                                          "home_", identifiers)} :
               /\ heap' = home.heap
               /\ away_games' = Append(away_games, away.ref)
               /\ home_games' = Append(home_games, home.ref)
    /\ UNCHANGED <<span, identifiers, files, dfs, merged, result, pc,
                   entry_mas, entry_df>>

\* merge_ma, the return statement
MergeJoin ==
    /\ pc = "merge"
    /\ Len(away_games) = Len(dfs)
    /\ \E df \in {Matchups(heap, away_games, home_games, identifiers)} :
       LET new == Alloc(heap, df)
       IN  /\ heap' = new.heap
           /\ merged' = new.ref
           /\ entry_df' = df
    /\ pc' = "tag"
    /\ UNCHANGED <<span, identifiers, files, dfs, away_games, home_games,
                   result, entry_mas>>

\* add_tournament_flag: to_datetime raises on a string that is no date; on a
\* table without rows apply(axis=1) returns a frame, not a column, and its
\* assignment to the one column is_tournament_game raises
AddTournamentFlag ==
    /\ pc = "tag"
    /\ \E df_copy \in {DfCopy(heap, merged)} :
       LET df == df_copy.heap[df_copy.ref]
       IN  IF \/ \E k \in 1..Len(df.rows) : ~Parseable(df.rows[k]["date"])
              \/ df.rows = <<>>
           THEN /\ heap' = df_copy.heap
                /\ result' = NoRef
                /\ pc' = "error"
           ELSE \E flagged \in {Flagged(df)} :
                /\ heap' = Store(df_copy.heap, df_copy.ref, flagged)
                /\ result' = df_copy.ref
                /\ pc' = "done"
    /\ UNCHANGED <<span, identifiers, files, dfs, away_games, home_games,
                   merged, entry_mas, entry_df>>

Next ==
    \/ \E t \in Teams : ComputeMaTeam(t)
    \/ MergeTeam
    \/ MergeJoin
    \/ AddTournamentFlag

Spec == Init /\ [][Next]_vars

NextMA == \E t \in Teams : ComputeMaTeam(t)

SpecMA == InitMA /\ [][NextMA]_vars

NextMerge == MergeTeam \/ MergeJoin

SpecMerge == InitMerge /\ [][NextMerge]_vars

NextTag == AddTournamentFlag

SpecTag == InitTag /\ [][NextTag]_vars

\* ------------------------------------------------------ compute_ma claims
RefOf(t) == (CHOOSE k \in 1..Len(dfs) : dfs[k].team = t)

Out(t) == heap[dfs[RefOf(t)].ref]

RECURSIVE Pow(_, _)
Pow(b, e) == IF e = 0 THEN 1 ELSE b * Pow(b, e - 1)

\* the series of team t in date order, read off the file by the day of each
\* row: the value at sorted position i (from 0) is the one played on day i + 1
SeriesLen(t) == Len(files[t].rows)

ValueAt(t, i) ==
    LET r == CHOOSE r \in SeqToSet(files[t].rows) : r.date = Day(i + 1)
    IN  r.val[1]

RECURSIVE SumFrom(_, _, _)
SumFrom(t, lo, hi) == IF lo > hi THEN 0 ELSE ValueAt(t, lo) + SumFrom(t, lo + 1, hi)

\* numerator of E[k] over the denominator (span + 1)^k, with
\* E[0] = value[0] and E[k] = a * value[k] + (1 - a) * E[k-1], a = 2 / (span + 1)
RECURSIVE EmaNum(_, _)
EmaNum(t, k) ==
    IF k = 0 THEN ValueAt(t, 0)
    ELSE 2 * ValueAt(t, k) * Pow(span + 1, k - 1) + (span - 1) * EmaNum(t, k - 1)

HasRecord(t, i) == \E k \in 1..Len(Out(t).rows) : Out(t).rows[k].date = Day(i + 1)

RecordAt(t, i) ==
    Out(t).rows[CHOOSE k \in 1..Len(Out(t).rows) : Out(t).rows[k].date = Day(i + 1)]

\* the fraction cell equals num / den
IsFraction(cell, num, den) == Len(cell) = 2 /\ cell[1] * den = num * cell[2]

LaggedAverages(t, i) ==
    \A r \in {RecordAt(t, i)} :
        /\ IsFraction(r.val_sma, SumFrom(t, i - span, i - 1), span)
        /\ IsFraction(r.val_cma, SumFrom(t, 0, i - 1), i)
        /\ IsFraction(r.val_ema, EmaNum(t, i - 1), Pow(span + 1, i - 1))

AgreeBefore(i) == \A j \in 0..(i - 1) : ValueAt("A", j) = ValueAt("B", j)

\* C1: the averages attached to the record at sorted position i >= span are
\* the mean of value[i-span..i-1], the mean of value[0..i-1] and E[i-1]; two
\* series that agree on positions 0..i-1 get the same three averages at i,
\* whatever they hold at position i and later.
C1_LagInvariant ==
    /\ \A t \in Teams : Done(t) =>
          \A i \in span..(SeriesLen(t) - 1) :
              HasRecord(t, i) /\ LaggedAverages(t, i)
    /\ (Done("A") /\ Done("B")) =>
          \A i \in span..(SeriesLen("A") - 1) : AgreeBefore(i) =>
              /\ RecordAt("A", i).val_sma = RecordAt("B", i).val_sma
              /\ RecordAt("A", i).val_cma = RecordAt("B", i).val_cma
              /\ RecordAt("A", i).val_ema = RecordAt("B", i).val_ema

\* both series computed; they agree before a position i > span and differ at i,
\* where the trailing window is not the whole history
C1_Witness ==
    /\ Done("A") /\ Done("B")
    /\ \E i \in (span + 1)..(SeriesLen("A") - 1) :
          /\ AgreeBefore(i)
          /\ ValueAt("A", i) # ValueAt("B", i)
          /\ RecordAt("A", i).val_sma # RecordAt("A", i).val_cma
          /\ RecordAt("A", i).val_ema # RecordAt("A", i).val_cma

NoNullNoDuplicate(t) ==
    LET rows == files[t].rows
    IN  /\ \A k \in 1..Len(rows) : \A c \in SeqToSet(Header) : ~IsNull(rows[k][c])
        /\ \A j, k \in 1..Len(rows) : j # k => rows[j] # rows[k]

Max(a, b) == IF a >= b THEN a ELSE b

\* the table of team t after the averages are attached and before it is cleaned
BeforeCleaning(t) ==
    AverageColumns(SortValues(ReadCsv(files[t]), "date"), Header, identifiers, span)

\* C2: in a series of n records without nulls or duplicate rows, val_sma and
\* val_cma are null exactly at the sorted positions i < span and val_ema
\* exactly at position 0; the record at position i is kept iff i >= span, so
\* max(0, n - span) records are kept, none when n <= span.
C2_WarmUp ==
    \A t \in Teams : (Done(t) /\ NoNullNoDuplicate(t)) =>
        \A pre \in {BeforeCleaning(t)}, out \in {Out(t)} :
            LET n == SeriesLen(t)
            IN  /\ \A i \in 0..(n - 1) :
                      /\ IsNull(pre.rows[i + 1].val_sma) <=> i < span
                      /\ IsNull(pre.rows[i + 1].val_cma) <=> i < span
                      /\ IsNull(pre.rows[i + 1].val_ema) <=> i = 0
                      /\ HasRecord(t, i) <=> i >= span
                /\ Len(out.rows) = Max(0, n - span)
                /\ n <= span => out.rows = <<>>

\* a computed series in which records are dropped and at least two are kept
C2_Witness ==
    /\ Done("A")
    /\ NoNullNoDuplicate("A")
    /\ SeriesLen("A") >= span + 2
    /\ Len(Out("A").rows) >= 2

\* the series [(date=1,val=10),(date=2,val=20),(date=3,val=30),(date=4,val=40)]
ExampleSeries == [k \in 1..4 |-> GameRow(Day(k), "B", "A", ExampleVals[k])]

ExampleComputed ==
    /\ span = 2
    /\ Done("A")
    /\ files["A"].rows \in {ExampleSeries, Reverse(ExampleSeries)}

\* C3 as stated: for the example series with span = 2 the output of the entity
\* is the date=4 row only, with val_sma = 25.
C3_OnlyLastRow ==
    ExampleComputed =>
        /\ Column(Out("A"), "date") = <<Day(4)>>
        /\ Column(Out("A"), "val_sma") = <<Rat(25)>>

\* C3 amended: for the example series with span = 2 the lagged SMA is first
\* defined at the row for date=3, where it is 15 (the mean of dates 1 and 2),
\* and is 25 at the row for date=4; the rows for dates 1 and 2 are dropped, so
\* the output is the date=3 row and the date=4 row.
C3_LastTwoRows ==
    ExampleComputed =>
        /\ Column(Out("A"), "date") = <<Day(3), Day(4)>>
        /\ Column(Out("A"), "val_sma") = <<Rat(15), Rat(25)>>
        /\ Column(Out("A"), "val") = <<Rat(30), Rat(40)>>

\* the example series has been computed from a file listed latest game first
C3_Witness ==
    /\ ExampleComputed
    /\ files["A"].rows = Reverse(ExampleSeries)
    /\ Len(Out("A").rows) = 2

\* -------------------------------------------------------- merge_ma claims
Returned == pc \in {"tag", "done", "error"}

Matchup == heap[merged]

\* the positions <<k, j>> of the records of the k-th entity's table that show
\* the entity on the given side
PerspectivePositions(side) ==
    {p \in UNION {{<<k, j>> : j \in 1..Len(entry_mas[k].rows)} : k \in 1..Len(dfs)} :
        entry_mas[p[1]].rows[p[2]][side] = <<dfs[p[1]].team>>}

RecordOf(p) == entry_mas[p[1]].rows[p[2]]

Metrics(row) == DOMAIN row \ identifiers

\* the fields of row m under the prefix are the fields of record r
Carries(m, r, prefix) ==
    /\ \A c \in identifiers : m[c] = r[c]
    /\ \A c \in Metrics(r) : (prefix \o c) \in DOMAIN m /\ m[prefix \o c] = r[c]

KeyOf(row) == [c \in identifiers |-> row[c]]

\* C4: every row of the output carries the fields of exactly one away record
\* and exactly one home record with its identifier key, and a record whose key
\* has no counterpart on the other side gives no output row.
C4_MergeCompleteness ==
    Returned =>
        /\ \A k \in 1..Len(Matchup.rows) :
              LET m == Matchup.rows[k]
              IN  /\ Cardinality({p \in PerspectivePositions("away") :
                                    Carries(m, RecordOf(p), "away_")}) = 1
                  /\ Cardinality({p \in PerspectivePositions("home") :
                                    Carries(m, RecordOf(p), "home_")}) = 1
        /\ \A side \in {"away", "home"} :
           \A p \in PerspectivePositions(side) :
              (\A q \in PerspectivePositions(IF side = "away" THEN "home" ELSE "away") :
                    KeyOf(RecordOf(q)) # KeyOf(RecordOf(p)))
              => \A k \in 1..Len(Matchup.rows) :
                    KeyOf(Matchup.rows[k]) # KeyOf(RecordOf(p))

\* a game was joined while another game, present on the away side only, was not
C4_Witness ==
    /\ pc = "tag"
    /\ Len(Matchup.rows) >= 1
    /\ \E p \in PerspectivePositions("away") :
          /\ \A c \in DOMAIN RecordOf(p) : ~IsNull(RecordOf(p)[c])
          /\ \A q \in PerspectivePositions("home") :
                KeyOf(RecordOf(q)) # KeyOf(RecordOf(p))

\* two rows of the tables collected for one side share their identifier key
KeyCollision(refs) ==
    \E k1, k2 \in 1..Len(refs) :
    \E j1 \in 1..Len(heap[refs[k1]].rows), j2 \in 1..Len(heap[refs[k2]].rows) :
        /\ <<k1, j1>> # <<k2, j2>>
        /\ KeyOf(heap[refs[k1]].rows[j1]) = KeyOf(heap[refs[k2]].rows[j2])

\* C5: when the away-table or the home-table holds more than one row with the
\* same identifier key, merge_ma reports an error and returns no table.
C5_CollisionIsError ==
    (Returned /\ (KeyCollision(away_games) \/ KeyCollision(home_games)))
        => merged = NoRef

\* the calendar day count of a date string, by counting the days
DaysBefore(y, m) ==
    LET RECURSIVE Months(_)
        Months(k) == IF k = 0 THEN 0 ELSE DaysInMonth(y, k) + Months(k - 1)
        RECURSIVE Years(_)
        Years(k) == IF k <= 2000 THEN 0
                    ELSE (IF IsLeap(k - 1) THEN 366 ELSE 365) + Years(k - 1)
    IN  Years(y) + Months(m - 1)

CalendarDay(s) == DaysBefore(s[1], s[2]) + s[3]

TournamentIntervals ==
    { << <<2010, 3, 16>>, <<2010, 4, 5>> >>, << <<2011, 3, 15>>, <<2011, 4, 4>> >>,
      << <<2012, 3, 13>>, <<2012, 4, 2>> >>, << <<2013, 3, 19>>, <<2013, 4, 8>> >>,
      << <<2014, 3, 18>>, <<2014, 4, 7>> >>, << <<2015, 3, 17>>, <<2015, 4, 6>> >>,
      << <<2016, 3, 15>>, <<2016, 4, 4>> >>, << <<2017, 3, 14>>, <<2017, 4, 3>> >>,
      << <<2018, 3, 13>>, <<2018, 4, 2>> >>, << <<2019, 3, 19>>, <<2019, 4, 8>> >> }

\* start <= d <= end on calendar dates, compared field by field
InClosedInterval(d, iv) == ~LexLess(d, iv[1]) /\ ~LexLess(iv[2], d)

InSomeInterval(d) == \E iv \in TournamentIntervals : InClosedInterval(d, iv)

DayAfterEnd(d) ==
    \E iv \in TournamentIntervals : CalendarDay(d) = CalendarDay(iv[2]) + 1

Tagged == heap[result]

\* C6: is_tournament_game of a row is true iff its date lies in one of the
\* closed intervals; a row dated on a start or end day is tagged true and a
\* row dated the day after an end day is tagged false.
C6_TagCorrect ==
    pc = "done" =>
        /\ Len(Tagged.rows) = Len(entry_df.rows)
        /\ \A k \in 1..Len(entry_df.rows) :
              LET d    == entry_df.rows[k].date
                  flag == Tagged.rows[k].is_tournament_game
              IN  /\ flag = <<InSomeInterval(d)>>
                  /\ (\E iv \in TournamentIntervals : d \in {iv[1], iv[2]})
                        => flag = <<TRUE>>
                  /\ DayAfterEnd(d) => flag = <<FALSE>>

\* a table with a row on the last day of an interval and a row on the day
\* after it has been tagged
C6_Witness ==
    /\ pc = "done"
    /\ \E j, k \in 1..Len(entry_df.rows) :
          /\ entry_df.rows[j].date = <<2010, 4, 5>>
          /\ entry_df.rows[k].date = <<2010, 4, 6>>
          /\ Tagged.rows[j].is_tournament_game # Tagged.rows[k].is_tournament_game

\* ------------------------------------------------------- pipeline claims
LaggedColumns ==
    {side \o m \o kind :
        side \in {"home_", "away_"},
        m \in SeqToSet(Header) \ identifiers,
        kind \in {"_sma", "_cma", "_ema"}}

\* C7: every column of the table get_training_data returns is an identifier,
\* a home_/away_ lagged average of a metric, or is_tournament_game; no column
\* holds the metric value of the row's own game.
C7_OnlyLaggedColumns ==
    pc = "done" =>
        SeqToSet(Tagged.columns) \subseteq
            identifiers \cup LaggedColumns \cup {"is_tournament_game"}

BadDate(d) == IsNull(d) \/ ~Parseable(d)

BadDateInFiles ==
    \E t \in Teams : \E k \in 1..Len(files[t].rows) : BadDate(files[t].rows[k].date)

\* C8: when an input record has a malformed or missing date the pipeline
\* fails and returns no table.
C8_BadDateFails == BadDateInFiles => (pc # "done" /\ result = NoRef)

\* C10: after merge_ma returns, every table of the mapping it was given is as
\* it was at the call; after add_tournament_flag returns, the table it was
\* given is as it was at the call.
C10_InputsKept ==
    /\ Returned =>
          \A k \in 1..Len(dfs) : heap[dfs[k].ref] = entry_mas[k]
    /\ pc \in {"done", "error"} => heap[merged] = entry_df

\* both stages ran on tables with rows: the merge selected and renamed rows of
\* a non-empty table and the tagger wrote its columns
C10_Witness ==
    /\ pc = "done"
    /\ Len(Tagged.rows) >= 1
    /\ "is_tournament_game" \in SeqToSet(Tagged.columns)
    /\ "is_tournament_game" \notin SeqToSet(Matchup.columns)
    /\ Tagged.rows[1].date # Matchup.rows[1].date
    /\ \E k \in 1..Len(dfs) : Len(heap[dfs[k].ref].rows) >= 2

====
